---------------------------- MODULE Spec2Model ----------------------------
(***************************************************************************)
(* A model of bloomfilter.go: the BloomFilter structure (m, k, bits,       *)
(* items) guarded by one sync.RWMutex, its constructor NewBloomFilter, the *)
(* index derivation getHashValues, and the four operations Add, Contains,  *)
(* Stats and Reset run by concurrent callers (the HTTP handlers'           *)
(* goroutines), and the handlers' method and decoding tests (SpecHttp).    *)
(* Every operation is split at its lock calls and at its                   *)
(* reads and writes of the shared fields, so that what a lock protects is  *)
(* something the model can get wrong.                                      *)
(***************************************************************************)
EXTENDS Integers, Sequences, FiniteSets, TLC

(***************************************************************************)
(* Bounds of the model.                                                    *)
(***************************************************************************)
NumProcs == 2      \* concurrent callers
MaxItems == 2      \* cap on the items counter (Add is not invoked beyond it)
MaxSize == 6       \* largest m for which getHashValues is run on its own
MaxHashes == 3     \* largest k for which getHashValues is run on its own

Procs == 1..NumProcs

(***************************************************************************)
(* Digest Engine.  sha256.New / Write / Sum(nil) of the item's bytes: the  *)
(* real SHA-256 digests of the items the model uses, byte by byte.         *)
(***************************************************************************)
Items == {"alpha", "beta"}

\* The items getHashValues is run on when it is checked on its own.
HashItems == Items \cup {"never-added"}

sha256Sum(item) ==
    CASE item = "alpha" ->
           << 142, 211, 246, 173, 104,  91, 149, 158,
              173, 112,  34,  81, 142,  26, 247, 108,
              216,  22, 248, 232, 236, 124, 205, 218,
               30, 212,   1, 142, 143,  34,  35, 248 >>
      [] item = "beta" ->
           << 244,  78, 100, 231,  95,  57,  72, 233,
              247,  63, 141, 250, 148, 114,  28,  76,
              232, 203, 180, 242, 101, 196, 121,  12,
              112,  43,  45,  65, 207, 191,  39,  83 >>
      [] item = "never-added" ->
           <<  86,  18, 222,  25,  38,   8, 132,  80,
              113, 249,  66,  53, 127, 111,  50, 240,
              156, 161,  15,   5, 159, 172, 134, 133,
              242, 193,  22,  57, 153, 236, 144, 130 >>

(***************************************************************************)
(* uint(binary.BigEndian.Uint64(b) % uint64(mm)) for mm > 0.  The 64-bit   *)
(* value b[0]<<56 | ... | b[7] is reduced byte by byte (Horner), which is  *)
(* the same residue and keeps every intermediate below 256 * mm.           *)
(***************************************************************************)
RECURSIVE Uint64Mod(_, _, _, _)
Uint64Mod(b, n, acc, mm) ==
    IF n > 8 THEN acc
    ELSE Uint64Mod(b, n + 1, (acc * 256 + b[n]) % mm, mm)

(***************************************************************************)
(* append(hash[:8], byte(i)): hash[:8] has length 8 and the capacity of    *)
(* hash (32), so append writes byte(i) into hash[8] of the SAME backing    *)
(* array and returns its first 9 bytes.  The operator returns the backing  *)
(* array after the call (1-based: position 9) and the returned slice.      *)
(***************************************************************************)
appendSlot(hash, i) ==
    LET backing == [hash EXCEPT ![9] = i % 256]
    IN  [backing |-> backing, slice |-> SubSeq(backing, 1, 9)]

(***************************************************************************)
(* A uint no bit array or slice can have as its length: the result of an   *)
(* out-of-range float64 -> uint conversion (2^63 on amd64, 2^64-1 where    *)
(* the conversion saturates).                                              *)
(***************************************************************************)
HugeUint == 2147483647

(***************************************************************************)
(* getHashValues, lines 97-110.  The loop state is (i, hash, result);      *)
(* the operator returns result, the digest buffer as the loop leaves it,   *)
(* and the panic, if any: make([]uint, k) with a length out of range, or   *)
(* the integer division by zero of value % uint64(0).  hashLoop binds the  *)
(* loop state an iteration leaves (n) before it runs the next one.         *)
(***************************************************************************)
SlotValueOffByOne(slice, mm) == Uint64Mod(slice, 1, 0, mm + 1)

SlotValuePerSlot(slice, mm) == (Uint64Mod(slice, 1, 0, mm) + slice[9]) % mm

SlotValue(slice, mm) == Uint64Mod(slice, 1, 0, mm)

\* One iteration of the loop, lines 103-107, for mm > 0.
hashIter(i, hash, result, mm) ==
    LET a == appendSlot(hash, i)
    IN  [i |-> i + 1, hash |-> a.backing,
         result |-> Append(result, SlotValue(a.slice, mm))]

RECURSIVE hashLoop(_, _, _, _, _)
hashLoop(i, hash, result, kk, mm) ==
    IF i >= kk THEN [result |-> result, hash |-> hash, panic |-> "none"]
    ELSE IF mm = 0
         THEN [result |-> result, hash |-> appendSlot(hash, i).backing,
               panic |-> "integer divide by zero"]
         ELSE CHOOSE r \in { hashLoop(n.i, n.hash, n.result, kk, mm) :
                                n \in { hashIter(i, hash, result, mm) } } : TRUE

getHashValues(item, kk, mm) ==
    IF kk = HugeUint
    THEN [result |-> << >>, hash |-> sha256Sum(item),
          panic |-> "makeslice: len out of range"]
    ELSE hashLoop(0, sha256Sum(item), << >>, kk, mm)


(***************************************************************************)
(* NewBloomFilter, lines 24-33.  float64 is modelled in fixed point: a     *)
(* false-positive rate is a fraction <<num, den>>, math.Log is tabulated   *)
(* in units of 1/Scale for the rates the model enumerates, and math.Ceil   *)
(* is the exact ceiling of the resulting quotient.                         *)
(***************************************************************************)
Scale == 10000

Ln2 == 6931            \* math.Log(2) = 0.6931...

Rates == { <<-1, 2>>, <<0, 1>>, <<1, 2>>, <<3, 4>>, <<1, 1>>, <<3, 2>> }

ExpectedItemsValues == { -1, 0, 1 }

mathLog(p) ==
    IF p[1] < 0 THEN [kind |-> "NaN", v |-> 0]
    ELSE IF p[1] = 0 THEN [kind |-> "-Inf", v |-> 0]
    ELSE [kind |-> "finite",
          v |-> CASE p = <<1, 2>> -> -6931
                  [] p = <<3, 4>> -> -2877
                  [] p = <<1, 1>> -> 0
                  [] p = <<3, 2>> -> 4055]

mathFloor(num, den) == num \div den

\* math.Ceil(num / den) for den > 0
mathCeil(num, den) ==
    IF num % den = 0 THEN num \div den ELSE (num \div den) + 1

(***************************************************************************)
(* uint(math.Ceil(num / den)), den > 0.  A value in (-1, 0] has ceiling    *)
(* (minus) zero and converts to 0.  A ceiling of -1 or less is not         *)
(* representable as uint: the conversion succeeds with an                  *)
(* implementation-dependent value, 0 where it saturates and a value above  *)
(* 2^63 where it wraps; both outcomes are kept.                            *)
(***************************************************************************)
uintOfCeil(num, den) ==
    IF num > 0 THEN { mathCeil(num, den) }
    ELSE IF num > -den THEN { 0 }
    ELSE { 0, HugeUint }

\* uint(NaN), uint(-Inf): implementation-dependent; uint(+Inf): huge.
uintOfNaN == { 0, HugeUint }

sizeOf(n, p) ==
    LET lg == mathLog(p)
    IN  CASE lg.kind = "NaN"  -> uintOfNaN
          [] lg.kind = "-Inf" -> IF n > 0 THEN { HugeUint } ELSE uintOfNaN
          [] OTHER            -> uintOfCeil((0 - n) * lg.v * Scale, Ln2 * Ln2)

hashCountOf(mm, n) ==
    IF n = 0 THEN (IF mm = 0 THEN uintOfNaN ELSE { HugeUint })
    ELSE IF n > 0 THEN uintOfCeil(Ln2 * mm, n * Scale)
    ELSE uintOfCeil((0 - Ln2) * mm, (0 - n) * Scale)

MakeBitsShort(mm) == [j \in 0..(mm - 2) |-> FALSE]

\* make([]bool, mm), lines 31 and 92
MakeBits(mm) == [j \in 0..(mm - 1) |-> FALSE]

\* The set of outcomes of NewBloomFilter(n, p): the filter it returns, or
\* the panic of make([]bool, m) when m is no valid length.
NewBloomFilter(n, p) ==
    UNION { IF mm = HugeUint
            THEN { [result |-> "panic", m |-> mm, k |-> 0,
                    bits |-> << >>, items |-> 0] }
            ELSE { [result |-> "filter", m |-> mm, k |-> kk,
                    bits |-> MakeBits(mm), items |-> 0]
                   : kk \in hashCountOf(mm, n) }
            : mm \in sizeOf(n, p) }

\* The preconditions of section 4.1: expectedItems > 0, 0 < rate < 1.
ValidParameters(n, p) == n > 0 /\ p[1] > 0 /\ p[1] < p[2]

(***************************************************************************)
(* State.                                                                  *)
(***************************************************************************)
VARIABLES
    expectedItems, falsePositiveRate,  \* the arguments of NewBloomFilter
    newResult,       \* "filter": a filter was returned; "panic": make panicked
    m, k, bits, items,                 \* the fields of BloomFilter
    mu,              \* bf.mu: [w |-> the writer that holds or awaits it, or 0,
                     \*         r |-> the callers that hold it for reading]
    req,             \* per caller: the HTTP request its handler serves
    pc, op, item,    \* per caller: position, operation, argument
    hashes, hashbuf, \* per caller: getHashValues' result and its digest buffer
    idx, setBits, tmp, res,            \* per caller: loop index, Stats' counter,
                                       \* the loaded items, the result to return
    \* history variables, read by the properties only
    addedSince,      \* items whose Add returned since the last Reset cleared
    addsDone,        \* Adds returned since the last Reset returned
    mustHold,        \* per caller: its Contains began after Add of its item
    fresh, clean,    \* no Add invoked since construction / the last Reset
    wiped,           \* the last Reset cleared set bits, and no Add came since
    pre,             \* per caller: bits and items when a repeated Add began
    committed, seen  \* the state after the last write; those a read spans

ctorVars == << expectedItems, falsePositiveRate, newResult >>
bfVars == << m, k, bits, items >>
callVars == << req, pc, req, op, item, hashes, hashbuf, idx, setBits, tmp, res >>
histVars == << addedSince, addsDone, mustHold, fresh, clean, wiped, pre,
               committed, seen >>
vars == << ctorVars, bfVars, mu, callVars, histVars >>

NoRet == [op |-> "none"]
None == [none |-> TRUE]

Reads == {"Contains", "Stats"}
Writes == {"Add", "Reset"}

(***************************************************************************)
(* The handlers, lines 125-191.  A request is its path, its method and its *)
(* body; the body of a POST to /api/add or /api/check is the item its JSON *)
(* decodes to, or Malformed when json.Decode returns an error.             *)
(***************************************************************************)
Malformed == "{"

NoReq == [path |-> "", method |-> "", body |-> ""]

Requests ==
    { [path |-> h, method |-> "POST", body |-> b] :
         h \in {"/api/add", "/api/check"}, b \in Items \cup {Malformed} }
    \cup { [path |-> h, method |-> "GET", body |-> ""] :
            h \in {"/api/add", "/api/check", "/api/reset"} }
    \cup { [path |-> h, method |-> mt, body |-> ""] :
            h \in {"/api/stats"}, mt \in {"GET", "POST"} }
    \cup { [path |-> "/api/reset", method |-> "POST", body |-> ""] }

\* The method each handler accepts: lines 126, 148, 170, 182.
AllowedMethod(h) == IF h = "/api/stats" THEN "GET" ELSE "POST"

\* The handlers that decode a body: lines 135 and 157.
DecodesBody(h) == h \in {"/api/add", "/api/check"}

StatusOfAnyMethod(r) ==
    IF DecodesBody(r.path) /\ r.body = Malformed THEN 400 ELSE 200

\* The status a handler answers a request with: 405 from the method test,
\* 400 from the decoding error, and otherwise the method's result (200).
StatusOf(r) ==
    IF r.method # AllowedMethod(r.path) THEN 405
    ELSE IF DecodesBody(r.path) /\ r.body = Malformed THEN 400
    ELSE 200

\* The method call of the handler of a request: lines 141, 163, 175, 187.
CallOf(r) ==
    CASE r.path = "/api/add"   -> [op |-> "Add", item |-> r.body]
      [] r.path = "/api/check" -> [op |-> "Contains", item |-> r.body]
      [] r.path = "/api/stats" -> [op |-> "Stats", item |-> ""]
      [] r.path = "/api/reset" -> [op |-> "Reset", item |-> ""]

Calls == { CallOf(r) : r \in { q \in Requests : StatusOf(q) = 200 } }

LockKindAddShared(o) == IF o = "Reset" THEN "Lock" ELSE "RLock"

LockKindResetShared(o) == IF o = "Add" THEN "Lock" ELSE "RLock"

\* Which lock call opens each method: lines 37, 49, 63, 89.
LockKind(o) == IF o \in {"Add", "Reset"} THEN "Lock" ELSE "RLock"

\* The first statement after the lock calls.
BodyStart(o) ==
    CASE o \in {"Add", "Contains"} -> "hash"
      [] o = "Stats" -> "scan"
      [] o = "Reset" -> "clear"

InFlight(q) == pc[q] # "idle"

InitFilter(n, p, f) ==
    /\ expectedItems = n
    /\ falsePositiveRate = p
    /\ newResult = f.result
    /\ m = f.m
    /\ k = f.k
    /\ bits = f.bits
    /\ items = f.items
    /\ mu = [w |-> 0, r |-> {}]
    /\ req = [q \in Procs |-> NoReq]
    /\ op = [q \in Procs |-> "none"]
    /\ hashes = [q \in Procs |-> << >>]
    /\ idx = [q \in Procs |-> 0]
    /\ setBits = [q \in Procs |-> 0]
    /\ tmp = [q \in Procs |-> 0]
    /\ res = [q \in Procs |-> NoRet]
    /\ addedSince = {}
    /\ addsDone = 0
    /\ mustHold = [q \in Procs |-> FALSE]
    /\ fresh = TRUE
    /\ clean = [q \in Procs |-> FALSE]
    /\ wiped = FALSE
    /\ pre = [q \in Procs |-> None]
    /\ committed = [bits |-> f.bits, items |-> f.items]
    /\ seen = [q \in Procs |-> {}]

InitWith(n, p, f) ==
    /\ InitFilter(n, p, f)
    /\ pc = [q \in Procs |-> "idle"]
    /\ item = [q \in Procs |-> ""]
    /\ hashbuf = [q \in Procs |-> << >>]

\* The program constructs its filter from valid parameters (line 113).
Init ==
    \E n \in ExpectedItemsValues, p \in Rates :
        /\ ValidParameters(n, p)
        /\ \E f \in NewBloomFilter(n, p) : InitWith(n, p, f)

\* NewBloomFilter applied to every enumerated argument pair.
InitNew ==
    \E n \in ExpectedItemsValues, p \in Rates :
        \E f \in NewBloomFilter(n, p) : InitWith(n, p, f)

(***************************************************************************)
(* bf.mu, a sync.RWMutex.  Lock first takes the writers' mutex and         *)
(* announces the writer, which turns later RLock calls away, then waits    *)
(* for the readers that hold the lock to leave.  RLock enters unless a     *)
(* writer is announced, and otherwise blocks until that writer's Unlock,   *)
(* which hands the lock to every reader blocked by then.                   *)
(***************************************************************************)
\* bf.mu.Lock() by p, whose method is o: it blocks while a writer is
\* announced ("Lock"), or announces p and waits for the readers to leave
\* ("LockWait"), or returns.
muLock(p, o) ==
    IF mu.w # 0
    THEN /\ pc' = [pc EXCEPT ![p] = "Lock"]
         /\ UNCHANGED mu
    ELSE /\ mu' = [mu EXCEPT !.w = p]
         /\ pc' = [pc EXCEPT ![p] = IF mu.r = {} THEN BodyStart(o)
                                    ELSE "LockWait"]

muRLockBarging(p, o) ==
    /\ mu' = [mu EXCEPT !.r = @ \cup {p}]
    /\ pc' = [pc EXCEPT ![p] = BodyStart(o)]

\* bf.mu.RLock() by p, whose method is o: it returns, or blocks behind the
\* announced writer ("RLockWait").
muRLock(p, o) ==
    IF mu.w = 0
    THEN /\ mu' = [mu EXCEPT !.r = @ \cup {p}]
         /\ pc' = [pc EXCEPT ![p] = BodyStart(o)]
    ELSE /\ pc' = [pc EXCEPT ![p] = "RLockWait"]
         /\ UNCHANGED mu

(***************************************************************************)
(* A handler's goroutine passes the method test and decodes the body, and  *)
(* invokes one of the four methods (lines 141, 163, 175, 187), whose first *)
(* statement is its lock call (lines 37, 49, 63, 89).  Add is not invoked  *)
(* once the counter could pass MaxItems.                                   *)
(***************************************************************************)
AddsInFlight == { q \in Procs : InFlight(q) /\ op[q] = "Add" }

Call(p) ==
    /\ newResult = "filter"
    /\ pc[p] = "idle"
    /\ \E r \in Requests : LET c == CallOf(r) IN
        /\ StatusOf(r) = 200
        /\ c.op = "Add" => items + Cardinality(AddsInFlight) < MaxItems
        /\ req' = [req EXCEPT ![p] = r]
        /\ op' = [op EXCEPT ![p] = c.op]
        /\ item' = [item EXCEPT ![p] = c.item]
        /\ IF LockKind(c.op) = "Lock" THEN muLock(p, c.op)
           ELSE muRLock(p, c.op)
        /\ mustHold' = [mustHold EXCEPT
                          ![p] = c.op = "Contains" /\ c.item \in addedSince]
        /\ fresh' = (fresh /\ c.op # "Add")
        /\ wiped' = (wiped /\ c.op # "Add")
        /\ clean' = IF c.op = "Add" THEN [q \in Procs |-> FALSE]
                    ELSE [clean EXCEPT ![p] = fresh /\ c.op \in Reads]
        /\ seen' = [seen EXCEPT ![p] = IF c.op \in Reads THEN {committed}
                                       ELSE {}]
    /\ UNCHANGED << ctorVars, bfVars, hashes, hashbuf, idx, setBits, tmp, res,
                    addedSince, addsDone, pre, committed >>

\* A handler answers a request with the wrong method (http.Error, 405) or
\* with a body that does not decode (400), and is about to return.
Reject(p) ==
    /\ newResult = "filter"
    /\ pc[p] = "idle"
    /\ \E r \in Requests :
        /\ StatusOf(r) # 200
        /\ req' = [req EXCEPT ![p] = r]
        /\ res' = [res EXCEPT ![p] = [op |-> "none", status |-> StatusOf(r)]]
    /\ pc' = [pc EXCEPT ![p] = "rejected"]
    /\ UNCHANGED << ctorVars, bfVars, mu, op, item, hashes, hashbuf, idx,
                    setBits, tmp, histVars >>

\* The return that follows http.Error: lines 128, 138, 150, 160, 172, 184.
Return(p) ==
    /\ pc[p] = "rejected"
    /\ pc' = [pc EXCEPT ![p] = "idle"]
    /\ req' = [req EXCEPT ![p] = NoReq]
    /\ res' = [res EXCEPT ![p] = NoRet]
    /\ UNCHANGED << ctorVars, bfVars, mu, op, item, hashes, hashbuf, idx,
                    setBits, tmp, histVars >>

\* A writer that found another writer announced gets the writers' mutex.
Lock(p) ==
    /\ pc[p] = "Lock"
    /\ mu.w = 0
    /\ muLock(p, op[p])
    /\ UNCHANGED << ctorVars, bfVars, req, op, item, hashes, hashbuf, idx, setBits,
                    tmp, res, histVars >>

\* The last reader has left: the announced writer holds the lock.
LockWait(p) ==
    /\ pc[p] = "LockWait"
    /\ mu.r = {}
    /\ pc' = [pc EXCEPT ![p] = BodyStart(op[p])]
    /\ UNCHANGED << ctorVars, bfVars, mu, req, op, item, hashes, hashbuf, idx,
                    setBits, tmp, res, histVars >>

(***************************************************************************)
(* hashes := bf.getHashValues(item), lines 40 and 52.  A panic unwinds to  *)
(* the deferred unlock.                                                    *)
(***************************************************************************)
Hash(p) ==
    /\ pc[p] = "hash"
    /\ LET h == getHashValues(item[p], k, m)
       IN  IF h.panic # "none"
           THEN /\ res' = [res EXCEPT ![p] = [op |-> op[p], panic |-> h.panic]]
                /\ pc' = [pc EXCEPT ![p] = "unlock"]
                /\ UNCHANGED << hashes, hashbuf, idx >>
           ELSE /\ hashes' = [hashes EXCEPT ![p] = h.result]
                /\ hashbuf' = [hashbuf EXCEPT ![p] = h.hash]
                /\ idx' = [idx EXCEPT ![p] = 1]
                /\ pc' = [pc EXCEPT ![p] = IF op[p] = "Add" THEN "set"
                                           ELSE "test"]
                /\ UNCHANGED res
    /\ pre' = [pre EXCEPT ![p] = IF op[p] = "Add" /\ item[p] \in addedSince
                                 THEN [bits |-> bits, items |-> items]
                                 ELSE None]
    /\ UNCHANGED << ctorVars, bfVars, mu, req, op, item, setBits, tmp,
                    addedSince, addsDone, mustHold, fresh, clean, wiped,
                    committed, seen >>

SetBitNeighbour(b, h) ==
    [b EXCEPT ![(h + 1) % Cardinality(DOMAIN b)] = TRUE]

SetBitToggle(b, h) == [b EXCEPT ![h] = ~ @]

\* The value Add's loop stores at one index: bf.bits[hash] = true, line 42.
SetBit(b, h) == [b EXCEPT ![h] = TRUE]

\* Add's loop, lines 41-43: one iteration.
Set(p) ==
    /\ pc[p] = "set"
    /\ idx[p] <= Len(hashes[p])
    /\ IF hashes[p][idx[p]] \notin DOMAIN bits
       THEN /\ res' = [res EXCEPT ![p] = [op |-> op[p],
                                         panic |-> "index out of range"]]
            /\ pc' = [pc EXCEPT ![p] = "unlock"]
            /\ UNCHANGED << bits, idx >>
       ELSE /\ bits' = SetBit(bits, hashes[p][idx[p]])
            /\ idx' = [idx EXCEPT ![p] = @ + 1]
            /\ UNCHANGED << pc, res >>
    /\ UNCHANGED << ctorVars, m, k, items, mu, req, op, item, hashes, hashbuf,
                    setBits, tmp, histVars >>

\* The loop is over; bf.items++, line 44: the read of the counter ...
Load(p) ==
    /\ pc[p] = "set"
    /\ idx[p] > Len(hashes[p])
    /\ tmp' = [tmp EXCEPT ![p] = items]
    /\ pc' = [pc EXCEPT ![p] = "store"]
    /\ UNCHANGED << ctorVars, bfVars, mu, req, op, item, hashes, hashbuf, idx,
                    setBits, res, histVars >>

\* ... and the write of the incremented value.
Incremented(n) == n + 1

Store(p) ==
    /\ pc[p] = "store"
    /\ items' = Incremented(tmp[p])
    /\ res' = [res EXCEPT ![p] = [op |-> "Add", item |-> item[p]]]
    /\ pc' = [pc EXCEPT ![p] = "unlock"]
    /\ UNCHANGED << ctorVars, m, k, bits, mu, req, op, item, hashes, hashbuf, idx,
                    setBits, tmp, histVars >>

bitUnsetNever(b, h) == FALSE

\* The test of Contains' loop: !bf.bits[hash], line 54.
bitUnset(b, h) == ~ b[h]

\* Contains' loop, lines 53-58: one iteration, the early return, or the end.
Test(p) ==
    /\ pc[p] = "test"
    /\ IF idx[p] > Len(hashes[p])
       THEN /\ res' = [res EXCEPT ![p] = [op |-> "Contains", item |-> item[p],
                                         exists |-> TRUE]]
            /\ pc' = [pc EXCEPT ![p] = "unlock"]
            /\ UNCHANGED idx
       ELSE IF hashes[p][idx[p]] \notin DOMAIN bits
       THEN /\ res' = [res EXCEPT ![p] = [op |-> op[p],
                                         panic |-> "index out of range"]]
            /\ pc' = [pc EXCEPT ![p] = "unlock"]
            /\ UNCHANGED idx
       ELSE IF bitUnset(bits, hashes[p][idx[p]])
       THEN /\ res' = [res EXCEPT ![p] = [op |-> "Contains", item |-> item[p],
                                         exists |-> FALSE]]
            /\ pc' = [pc EXCEPT ![p] = "unlock"]
            /\ UNCHANGED idx
       ELSE /\ idx' = [idx EXCEPT ![p] = @ + 1]
            /\ UNCHANGED << pc, res >>
    /\ UNCHANGED << ctorVars, bfVars, mu, req, op, item, hashes, hashbuf, setBits,
                    tmp, histVars >>

\* Stats' loop, lines 66-71: one bit.
Scan(p) ==
    /\ pc[p] = "scan"
    /\ idx[p] \in DOMAIN bits
    /\ setBits' = [setBits EXCEPT ![p] = IF bits[idx[p]] THEN @ + 1 ELSE @]
    /\ idx' = [idx EXCEPT ![p] = @ + 1]
    /\ UNCHANGED << ctorVars, bfVars, mu, pc, req, op, item, hashes, hashbuf, tmp,
                    res, histVars >>

(***************************************************************************)
(* float64 results as fractions [num, den]; den = 0 is NaN (0/0).          *)
(***************************************************************************)
RECURSIVE IntPow(_, _)
IntPow(b, e) == IF e = 0 THEN 1 ELSE b * IntPow(b, e - 1)

\* float64(setBits) / float64(bf.m), line 74
Ratio(n, d) == [num |-> n, den |-> d]

\* math.Pow(x, float64(kk)), line 75: Pow(x, 0) is 1 for every x, NaN
\* included, and Pow(NaN, y) is NaN for every other y.
mathPow(x, kk) ==
    IF kk = 0 THEN [num |-> 1, den |-> 1]
    ELSE IF x.den = 0 THEN x
    ELSE IF kk = HugeUint
         THEN (IF x.num = x.den THEN [num |-> 1, den |-> 1]
               ELSE [num |-> 0, den |-> 1])
    ELSE [num |-> IntPow(x.num, kk), den |-> IntPow(x.den, kk)]

\* The map Stats returns, lines 74-84, from the values it read.
StatsRecord(mm, kk, n, sb) ==
    [op |-> "Stats",
     size |-> mm,
     hashFunctions |-> kk,
     itemsAdded |-> n,
     bitsSet |-> sb,
     fillRatio |-> Ratio(sb, mm),
     falsePositiveRate |-> mathPow(Ratio(sb, mm), kk)]

\* The loop is over; the ratios and the returned map, lines 74-84.
Snapshot(p) ==
    /\ pc[p] = "scan"
    /\ idx[p] \notin DOMAIN bits
    /\ res' = [res EXCEPT ![p] = StatsRecord(m, k, items, setBits[p])]
    /\ pc' = [pc EXCEPT ![p] = "unlock"]
    /\ UNCHANGED << ctorVars, bfVars, mu, req, op, item, hashes, hashbuf, idx,
                    setBits, tmp, histVars >>

\* Reset, line 92: bf.bits = make([]bool, bf.m)
Clear(p) ==
    /\ pc[p] = "clear"
    /\ bits' = MakeBits(m)
    /\ pc' = [pc EXCEPT ![p] = "zero"]
    /\ addedSince' = {}
    /\ mustHold' = [q \in Procs |-> FALSE]
    /\ wiped' = (\E j \in DOMAIN bits : bits[j])
    /\ UNCHANGED << ctorVars, m, k, items, mu, req, op, item, hashes, hashbuf, idx,
                    setBits, tmp, res, addsDone, fresh, clean, pre,
                    committed, seen >>

ResetItemsKept(n) == n

\* Reset, line 93: bf.items = 0
ResetItems(n) == 0

Zero(p) ==
    /\ pc[p] = "zero"
    /\ items' = ResetItems(items)
    /\ res' = [res EXCEPT ![p] = [op |-> "Reset"]]
    /\ pc' = [pc EXCEPT ![p] = "unlock"]
    /\ UNCHANGED << ctorVars, m, k, bits, mu, req, op, item, hashes, hashbuf, idx,
                    setBits, tmp, histVars >>

(***************************************************************************)
(* The deferred Unlock / RUnlock (lines 38, 50, 64, 90) and the return of  *)
(* the pending result (res) to the handler, whose goroutine then ends.     *)
(* Unlock admits the readers that blocked behind the writer.               *)
(***************************************************************************)
Blocked == { q \in Procs : pc[q] = "RLockWait" }

Unlock(p) ==
    /\ pc[p] = "unlock"
    /\ IF LockKind(op[p]) = "Lock"
       THEN /\ mu' = [w |-> 0, r |-> mu.r \cup Blocked]
            /\ pc' = [q \in Procs |->
                        IF q = p THEN "idle"
                        ELSE IF q \in Blocked THEN BodyStart(op[q])
                        ELSE pc[q]]
       ELSE /\ mu' = [mu EXCEPT !.r = @ \ {p}]
            /\ pc' = [pc EXCEPT ![p] = "idle"]
    /\ res' = [res EXCEPT ![p] = NoRet]
    /\ req' = [req EXCEPT ![p] = NoReq]
    /\ op' = [op EXCEPT ![p] = "none"]
    /\ item' = [item EXCEPT ![p] = ""]
    /\ hashes' = [hashes EXCEPT ![p] = << >>]
    /\ hashbuf' = [hashbuf EXCEPT ![p] = << >>]
    /\ idx' = [idx EXCEPT ![p] = 0]
    /\ setBits' = [setBits EXCEPT ![p] = 0]
    /\ tmp' = [tmp EXCEPT ![p] = 0]
    /\ pre' = [pre EXCEPT ![p] = None]
    /\ mustHold' = [mustHold EXCEPT ![p] = FALSE]
    /\ clean' = [clean EXCEPT ![p] = FALSE]
    /\ addedSince' = IF res[p] = [op |-> "Add", item |-> item[p]]
                     THEN addedSince \cup {item[p]} ELSE addedSince
    /\ addsDone' = CASE res[p] = [op |-> "Add", item |-> item[p]]
                          -> addsDone + 1
                     [] res[p] = [op |-> "Reset"] -> 0
                     [] OTHER -> addsDone
    /\ fresh' = IF op[p] = "Reset" THEN AddsInFlight = {} ELSE fresh
    /\ IF op[p] \in Writes
       THEN /\ committed' = [bits |-> bits, items |-> items]
            /\ seen' = [q \in Procs |->
                          IF q # p /\ (q \in mu.r \/ q \in Blocked)
                          THEN seen[q] \cup {[bits |-> bits, items |-> items]}
                          ELSE IF q = p THEN {} ELSE seen[q]]
       ELSE /\ seen' = [seen EXCEPT ![p] = {}]
            /\ UNCHANGED committed
    /\ UNCHANGED << ctorVars, bfVars, wiped >>

Next ==
    \E p \in Procs :
        \/ Call(p)
        \/ Lock(p)
        \/ LockWait(p)
        \/ Hash(p)
        \/ Set(p)
        \/ Load(p)
        \/ Store(p)
        \/ Test(p)
        \/ Scan(p)
        \/ Snapshot(p)
        \/ Clear(p)
        \/ Zero(p)
        \/ Unlock(p)

Spec == Init /\ [][Next]_vars

(***************************************************************************)
(* getHashValues on its own: the fields m and k are bound to every pair    *)
(* of values up to MaxSize and MaxHashes, caller 1 runs the loop of lines  *)
(* 103-107 on one item, one iteration a step, and returns.                 *)
(***************************************************************************)
InitHash ==
    \E mm \in 1..MaxSize, kk \in 1..MaxHashes, x \in HashItems :
        /\ InitFilter(1, <<1, 2>>,
                      [result |-> "filter", m |-> mm, k |-> kk,
                       bits |-> MakeBits(mm), items |-> 0])
        /\ pc = [q \in Procs |-> IF q = 1 THEN "loop" ELSE "idle"]
        /\ item = [q \in Procs |-> IF q = 1 THEN x ELSE ""]
        /\ hashbuf = [q \in Procs |-> IF q = 1 THEN sha256Sum(x) ELSE << >>]

HashIter(p) ==
    /\ pc[p] = "loop"
    /\ idx[p] < k
    /\ LET n == hashIter(idx[p], hashbuf[p], hashes[p], m)
       IN  /\ idx' = [idx EXCEPT ![p] = n.i]
           /\ hashbuf' = [hashbuf EXCEPT ![p] = n.hash]
           /\ hashes' = [hashes EXCEPT ![p] = n.result]
    /\ UNCHANGED << ctorVars, bfVars, mu, pc, req, op, item, setBits, tmp, res,
                    histVars >>

HashReturn(p) ==
    /\ pc[p] = "loop"
    /\ idx[p] >= k
    /\ pc' = [pc EXCEPT ![p] = "returned"]
    /\ UNCHANGED << ctorVars, bfVars, mu, req, op, item, hashes, hashbuf, idx,
                    setBits, tmp, res, histVars >>

NextHash == \E p \in Procs : HashIter(p) \/ HashReturn(p)

SpecHash == InitHash /\ [][NextHash]_vars

SpecNew == InitNew /\ [][Next]_vars

(***************************************************************************)
(* The filter behind its handlers: the methods as in Spec, and the         *)
(* requests the handlers turn away.  The handlers' tests read nothing of   *)
(* the filter, so the smallest filter valid parameters give (one bit, one  *)
(* hash function) stands behind them.                                      *)
(***************************************************************************)
InitHttp ==
    \E f \in NewBloomFilter(1, <<3, 4>>) : InitWith(1, <<3, 4>>, f)

NextHttp ==
    \/ Next
    \/ \E p \in Procs : Reject(p) \/ Return(p)

SpecHttp == InitHttp /\ [][NextHttp]_vars

(***************************************************************************)
(* Scheduling.  A goroutine that can take its next step takes it (weak     *)
(* fairness of every step but the invocation, which is the client's        *)
(* choice).  A writer blocked on the writers' mutex gets it once it has    *)
(* been free often enough: sync.Mutex turns to handing the mutex to its    *)
(* longest waiter (starvation mode), hence strong fairness of Lock.        *)
(***************************************************************************)
Progress(p) ==
    \/ LockWait(p)
    \/ Hash(p)
    \/ Set(p)
    \/ Load(p)
    \/ Store(p)
    \/ Test(p)
    \/ Scan(p)
    \/ Snapshot(p)
    \/ Clear(p)
    \/ Zero(p)
    \/ Unlock(p)

Fairness == \A p \in Procs : WF_vars(Progress(p)) /\ SF_vars(Lock(p))

SpecFair == Init /\ [][Next]_vars /\ Fairness

TypeOK ==
    /\ newResult \in {"filter", "panic"}
    /\ items \in 0..MaxItems
    /\ mu.w \in Procs \cup {0}
    /\ mu.r \subseteq Procs
    /\ \A p \in Procs : req[p] \in Requests \cup {NoReq}
    /\ DOMAIN bits = 0..(m - 1)

(***************************************************************************)
(* Properties.                                                             *)
(***************************************************************************)
\* The method of caller p is about to return res[p].
Returning(p) == pc[p] = "unlock"

\* The positions between a method's lock call and its deferred unlock.
InCritical(p) ==
    pc[p] \in {"hash", "set", "store", "test", "scan", "clear", "zero",
               "unlock"}

Writers == { p \in Procs : InCritical(p) /\ op[p] \in Writes }
Readers == { p \in Procs : InCritical(p) /\ op[p] \in Reads }

\* C1: a Contains(x) that began after an Add(x) returned, with no Reset
\* clearing the bits in between, returns true.
NoFalseNegatives ==
    \A p \in Procs :
        (Returning(p) /\ res[p].op = "Contains" /\ mustHold[p])
            => res[p] = [op |-> "Contains", item |-> item[p], exists |-> TRUE]

\* Such a Contains has returned, after both items were added.
NoFalseNegativesWitness ==
    \E p \in Procs :
        /\ Returning(p)
        /\ res[p].op = "Contains"
        /\ mustHold[p]
        /\ addedSince = Items

\* C2: a Contains or Stats invoked on the fresh filter, or after a Reset
\* returned, and before any later Add is invoked, returns false, and
\* itemsAdded = 0 and bitsSet = 0.
ResetClearsState ==
    \A p \in Procs :
        (Returning(p) /\ clean[p]) =>
            /\ res[p].op = "Contains" =>
                  res[p] = [op |-> "Contains", item |-> item[p],
                            exists |-> FALSE]
            /\ res[p].op = "Stats" =>
                  (res[p].itemsAdded = 0 /\ res[p].bitsSet = 0)

\* A Stats has returned after a Reset that cleared bits that were set.
ResetClearsStateWitness ==
    \E p \in Procs :
        Returning(p) /\ clean[p] /\ wiped /\ res[p].op = "Stats"

\* C3: whenever no Add or Reset is inside its critical section, items is
\* the number of Adds that returned since the last Reset; and only Reset's
\* assignment decreases items.
MonotonicCounter ==
    [][ /\ items' < items => \E p \in Procs : pc[p] = "zero" /\ op[p] = "Reset"
        /\ (Writers' = {}) => items' = addsDone' ]_vars

\* Two Adds of the same item have returned and were both counted.
MonotonicCounterWitness ==
    /\ Writers = {}
    /\ addsDone = 2
    /\ items = 2
    /\ Cardinality(addedSince) = 1

\* C4: when an Add of an item already added (no Reset since) reaches its
\* deferred unlock, the bits are those it found and items is one more.
IdempotentBitSetting ==
    \A p \in Procs :
        (pc[p] = "unlock" /\ op[p] = "Add" /\ pre[p] # None) =>
            /\ bits = pre[p].bits
            /\ items = pre[p].items + 1

\* A repeated Add has done all its work.
IdempotentBitSettingWitness ==
    \E p \in Procs :
        /\ pc[p] = "unlock"
        /\ op[p] = "Add"
        /\ pre[p] # None
        /\ \E j \in DOMAIN bits : ~ bits[j]

\* C5: at most one Add or Reset is inside its critical section, and then no
\* Contains or Stats is inside its own.
ReaderWriterExclusion ==
    /\ Cardinality(Writers) <= 1
    /\ Writers # {} => Readers = {}

\* Two readers are inside their critical sections at once.
ReaderWriterExclusionWitness == Cardinality(Readers) >= 2

\* What Contains and Stats return when run on the state s alone.
ContainsOn(s, x) ==
    LET h == getHashValues(x, k, m).result
    IN  [op |-> "Contains", item |-> x,
         exists |-> \A i \in 1..Len(h) : s.bits[h[i]]]

StatsOn(s) ==
    StatsRecord(m, k, s.items,
                Cardinality({ j \in DOMAIN s.bits : s.bits[j] }))

\* C6: what a Contains or Stats returns is what it would return on one of
\* the states left by a completed write that were current while it ran.
NoTornReads ==
    \A p \in Procs :
        (Returning(p) /\ res[p].op \in Reads) =>
            \E s \in seen[p] :
                res[p] = IF res[p].op = "Contains" THEN ContainsOn(s, item[p])
                         ELSE StatsOn(s)

\* A Stats that had to wait for a write to finish has returned.
NoTornReadsWitness ==
    \E p \in Procs :
        Returning(p) /\ res[p].op = "Stats" /\ Cardinality(seen[p]) = 2

\* C7: construction from invalid parameters fails with InvalidParameters
\* and leaves no filter on which a method could run.
InvalidParametersRejected ==
    ~ ValidParameters(expectedItems, falsePositiveRate) =>
        /\ newResult = "InvalidParameters"
        /\ \A p \in Procs : pc[p] = "idle"

\* C8: what getHashValues returned to an Add or Contains is k indices, all
\* in [0, m), and no Add or Contains panics.
IndicesInRange ==
    \A p \in Procs :
        /\ "panic" \notin DOMAIN res[p]
        /\ pc[p] \in {"set", "test"} =>
              /\ Len(hashes[p]) = k
              /\ \A i \in 1..Len(hashes[p]) :
                    hashes[p][i] \in 0..(m - 1) /\ hashes[p][i] \in DOMAIN bits

\* An Add has stored at all of its k >= 2 indices.
IndicesInRangeWitness ==
    \E p \in Procs :
        pc[p] = "set" /\ k >= 2 /\ idx[p] = k + 1 /\ Len(hashes[p]) = k

\* The 8 bytes of a digest from offset o (0-based), as an unsigned
\* big-endian integer, modulo mm.
Part(x, o, mm) == Uint64Mod(SubSeq(sha256Sum(x), o + 1, o + 8), 1, 0, mm)

\* C9: there are two different parts of the digest, h1 and h2, such that
\* the i-th index of every item is (h1 + i * h2) mod m.
TwoHashDerivation ==
    \E a \in 0..24, b \in 0..24 :
        /\ a # b
        /\ \A x \in HashItems :
              LET h == getHashValues(x, k, m).result
              IN  \A i \in 0..(k - 1) :
                     h[i + 1] = (Part(x, a, m) + i * Part(x, b, m)) % m

\* float64 value in [0, 1]
InUnit(r) == r.den > 0 /\ 0 <= r.num /\ r.num <= r.den

\* C10: in every Stats result 0 <= bitsSet <= size, and fillRatio and the
\* estimated false-positive rate lie in [0, 1].
FillRatioBound ==
    \A p \in Procs :
        (Returning(p) /\ res[p].op = "Stats") =>
            /\ 0 <= res[p].bitsSet
            /\ res[p].bitsSet <= res[p].size
            /\ InUnit(res[p].fillRatio)
            /\ InUnit(res[p].falsePositiveRate)

\* A Stats has returned with some but not all bits set.
FillRatioBoundWitness ==
    \E p \in Procs :
        /\ Returning(p)
        /\ res[p].op = "Stats"
        /\ 0 < res[p].bitsSet
        /\ res[p].bitsSet < res[p].size

\* The keys of a returned map (op is the tag of the method that returned).
StatsFields(r) == DOMAIN r \ {"op"}

\* The number of true entries of a bit array.
BitsSet(b) == Cardinality({ j \in DOMAIN b : b[j] })

\* C11: the map Stats returns has exactly the keys size, hashFunctions,
\* itemsAdded, bitsSet, fillRatio and estimatedFalsePositiveRate, with
\* size = m, hashFunctions = k, itemsAdded = items and bitsSet = the number
\* of true bits.
StatsContractFields ==
    \A p \in Procs :
        (Returning(p) /\ res[p].op = "Stats") =>
            /\ StatsFields(res[p]) =
                  {"size", "hashFunctions", "itemsAdded", "bitsSet",
                   "fillRatio", "estimatedFalsePositiveRate"}
            /\ res[p].size = m
            /\ res[p].hashFunctions = k
            /\ res[p].itemsAdded = items
            /\ res[p].bitsSet = BitsSet(bits)

\* C13: Contains returns true exactly if the bit at every index derived for
\* its item is set; when it returns false it stands at the first index
\* whose bit is unset.
ContainsIffAllSet ==
    \A p \in Procs :
        (Returning(p) /\ res[p].op = "Contains") =>
            /\ hashes[p] = getHashValues(item[p], k, m).result
            /\ res[p].exists <=>
                  \A i \in 1..Len(hashes[p]) : bits[hashes[p][i]]
            /\ res[p].exists => idx[p] = Len(hashes[p]) + 1
            /\ ~ res[p].exists =>
                  /\ idx[p] \in 1..Len(hashes[p])
                  /\ ~ bits[hashes[p][idx[p]]]
                  /\ \A j \in 1..(idx[p] - 1) : bits[hashes[p][j]]

\* A Contains returns false while a bit of another item is set.
ContainsIffAllSetWitness ==
    \E p \in Procs :
        /\ Returning(p)
        /\ res[p].op = "Contains"
        /\ ~ res[p].exists
        /\ BitsSet(bits) >= 1

\* C14: a bit that is true stays true in every step except Reset's
\* assignment of a new array.
BitsAccumulate ==
    [][ \A j \in DOMAIN bits :
           (bits[j] /\ (j \notin DOMAIN bits' \/ ~ bits'[j])) =>
               \E p \in Procs :
                   pc[p] = "clear" /\ op[p] = "Reset" /\ pc'[p] = "zero" ]_vars

\* Two Adds have returned, every bit of a filter of two bits is set, and a
\* Contains or Stats is returning.
BitsAccumulateWitness ==
    /\ m >= 2
    /\ addsDone = 2
    /\ \A j \in DOMAIN bits : bits[j]
    /\ \E p \in Procs : Returning(p) /\ op[p] \in Reads

\* C15: m and k never change and the bit array has length m in every state.
FixedParameters ==
    /\ DOMAIN bits = 0..(m - 1)
    /\ [][ m' = m /\ k' = k /\ DOMAIN bits' = 0..(m' - 1) ]_vars

\* A Reset that replaced an array with set bits is returning.
FixedParametersWitness ==
    \E p \in Procs :
        pc[p] = "unlock" /\ op[p] = "Reset" /\ wiped /\ BitsSet(bits) = 0

\* Caller p takes a step of its method.
Stepped(p) == pc'[p] # pc[p] \/ idx'[p] # idx[p]

\* C16: no step of a Contains or Stats changes m, k, bits or items; a step
\* of an Add changes at most one bit, at an index derived for its item, to
\* true, and items only in its increment, by one.
PureReads ==
    [][ \A p \in Procs :
           /\ (InCritical(p) /\ op[p] \in Reads /\ Stepped(p)) =>
                 UNCHANGED bfVars
           /\ (InCritical(p) /\ op[p] = "Add" /\ Stepped(p)) =>
                 /\ m' = m
                 /\ k' = k
                 /\ pc[p] = "hash" =>
                       /\ bits' = bits
                       /\ pc'[p] = "set" =>
                             hashes'[p] = getHashValues(item[p], k, m).result
                 /\ \/ bits' = bits
                    \/ /\ pc[p] = "set"
                       /\ \E i \in 1..Len(hashes[p]) :
                             /\ hashes[p][i] \in DOMAIN bits
                             /\ bits' = [bits EXCEPT ![hashes[p][i]] = TRUE]
                 /\ items' = IF pc[p] = "store" THEN items + 1 ELSE items
      ]_vars

\* A first Add of an item has set one of two bits and counted itself.
PureReadsWitness ==
    \E p \in Procs :
        /\ pc[p] = "unlock"
        /\ op[p] = "Add"
        /\ pre[p] = None
        /\ m = 2
        /\ BitsSet(bits) = 1
        /\ items = 1

\* C17: the digest buffer of getHashValues holds the digest of the item
\* throughout the loop and after it.
DigestNotMutated ==
    \A p \in Procs :
        pc[p] \in {"loop", "returned"} => hashbuf[p] = sha256Sum(item[p])

Waiting(p) == pc[p] \in {"Lock", "LockWait", "RLockWait"}

Holds(p) == p \in mu.r \/ (mu.w = p /\ pc[p] # "LockWait")

\* C18: every invoked method returns, having released the lock; a caller
\* that waits in a lock call gets the lock; and no caller holds the lock
\* outside its method.
EveryCallReturns ==
    /\ [](\A p \in Procs : pc[p] = "idle" => ~ Holds(p) /\ mu.w # p)
    /\ \A p \in Procs : InFlight(p) ~> (pc[p] = "idle")
    /\ \A p \in Procs : Waiting(p) ~> InCritical(p)

\* An Add or Reset waits for the readers to leave while a Contains is on
\* its early return.
EveryCallReturnsWitness ==
    \E p, q \in Procs :
        /\ pc[p] = "LockWait"
        /\ q \in mu.r
        /\ pc[q] = "unlock"
        /\ op[q] = "Contains"
        /\ ~ res[q].exists

\* A request its handler must turn away: the wrong method, or a body that
\* does not decode.
BadRequest(r) ==
    /\ r # NoReq
    /\ \/ r.method # AllowedMethod(r.path)
       \/ DecodesBody(r.path) /\ r.body = Malformed

\* C12: a handler that serves a request with the wrong method or an
\* undecodable body answers with an error, invokes no method of the filter
\* and takes no lock, and its steps leave m, k, bits and items as they are.
TransportRejection ==
    [][ \A p \in Procs :
           /\ BadRequest(req'[p]) =>
                 /\ pc'[p] = "rejected"
                 /\ op'[p] = "none"
                 /\ res'[p].status \in {400, 405}
                 /\ ~ Holds(p)'
           /\ (BadRequest(req[p]) \/ BadRequest(req'[p])) /\ req'[p] # req[p] =>
                 UNCHANGED bfVars
      ]_vars

\* A POST to /api/add whose body does not decode is answered 400 while the
\* filter holds an item.
TransportRejectionWitness ==
    \E p \in Procs :
        /\ pc[p] = "rejected"
        /\ req[p] = [path |-> "/api/add", method |-> "POST", body |-> Malformed]
        /\ res[p].status = 400
        /\ items >= 1
        /\ BitsSet(bits) >= 1

=============================================================================
